---- MODULE Spec2Model ----
(***************************************************************************)
(* Model of browser_client/sip-phone.js: the SIPPhone class.               *)
(*                                                                         *)
(* The object's fields are the record `phone`, the properties of the DOM   *)
(* elements it writes are the record `dom`, what the browser holds for it  *)
(* (socket readyState, pending timeouts, live intervals, localStorage) is  *)
(* the record `browser`, and `out` records what the handler that ran last  *)
(* handed to its collaborators (transport sends, log lines, settings       *)
(* saves).  The text the object writes into the page (status lines, the    *)
(* call panel, the duration) goes to the render sink and is not kept; the  *)
(* controls' disabled flags are.  Every method is an operator from a state *)
(* record                                                                  *)
(* [phone, dom, browser, out] to the state record after the method, so a   *)
(* handler is the composition of the calls it makes, in source order.      *)
(* Methods are public (window.sipPhone), so commands are callable in any   *)
(* state, whatever the buttons show.                                       *)
(***************************************************************************)
EXTENDS Naturals, Sequences, FiniteSets

VARIABLES phone, dom, browser, out, tableState

vars == <<phone, dom, browser, out, tableState>>

\* ---------------------------------------------------------------- bounds
\* Intervals (call-duration ticks and ringtone pulses) alive at once: a start
\* over a running interval orphans the old one, so the number has no limit
\* of its own; starts are cut off at this many.
MaxIntervals == 2

\* ---------------------------------------------------------------- inputs
Callers == {"100"}
Numbers == {"", " ", "200"}
Forms == {"blank", "filled"}
Digits == {"5"}

\* An absent payload (data.payload is undefined).
Undefined == [undefined |-> TRUE]

StatusPayloads ==
    [sip_registered : BOOLEAN, active_call : BOOLEAN,
     has_incoming : BOOLEAN, caller_number : Callers]

EventTypes ==
    {"status_update", "sip_registered", "sip_unregistered", "incoming_call",
     "call_ringing", "call_answered", "call_ended", "call_failed",
     "success", "error"}

\* A raw frame: text JSON.parse rejects, the JSON text `null`, or an object
\* with a type and a payload (an object, or absent).
PayloadOf(t) ==
    CASE t = "status_update" -> StatusPayloads
      [] t = "incoming_call" -> [caller_number : Callers]
      [] t = "call_failed"   -> [reason : {"busy"}]
      [] t \in {"success", "error"} -> [message : {"text"}]
      [] OTHER -> {[empty |-> TRUE]}

\* The types whose handling reads a property of the payload.
ReadsPayload == {"status_update", "incoming_call", "call_failed", "success", "error"}

Frames ==
    {[kind |-> "garbage"], [kind |-> "null"]}
    \cup UNION {[kind : {"object"}, type : {t},
                 payload : PayloadOf(t)
                           \cup (IF t \in ReadsPayload THEN {Undefined} ELSE {})]
                 : t \in EventTypes \cup {"future_event"}}

\* ---------------------------------------------------------------- state
State == [phone |-> phone, dom |-> dom, browser |-> browser, out |-> out]

\* ----------------------------------------------- CallState, as rendered
\* The object keeps no CallState of its own to update (currentCallState is
\* written once, by the constructor); the state it is in is the branch
\* updateCallControls takes, and an outgoing attempt is the hang-up control
\* showOutgoingCall enables while neither flag is set.
CallStateOf(s) ==
    IF s.phone.isInCall THEN "ACTIVE"
    ELSE IF s.phone.hasIncomingCall THEN "INCOMING_RINGING"
    ELSE IF ~s.dom.hangupBtnDisabled THEN "DIALING"
    ELSE "IDLE"

\* A handler starts: `out` is what this run hands out, with the CallState it
\* started in and, for an inbound frame, whether it repeats the frame handled
\* just before it.
Begin(s, op, arg) ==
    [s EXCEPT !.out = [op |-> op, arg |-> arg, sent |-> <<>>, logs |-> <<>>,
                       saves |-> 0, threw |-> FALSE,
                       pre |-> CallStateOf(s),
                       again |-> (op = "onmessage" /\ s.out.op = op
                                    /\ s.out.arg = arg)]]

Throw(s) == [s EXCEPT !.out.threw = TRUE]
Catch(s) == [s EXCEPT !.out.threw = FALSE]

\* log(message, level): the entry goes to the log container and the log store.
log(s, level) == [s EXCEPT !.out.logs = Append(@, level)]

\* String.prototype.trim on the modelled inputs.
trim(str) == IF str = " " THEN "" ELSE str

\* ------------------------------------------------- ringtone and call timer
\* playRingtone: a new AudioContext (the browser has Web Audio), then a new
\* 2 s interval whose handle overwrites this.ringtoneInterval.
playRingtone(s) ==
    [s EXCEPT !.browser.ringIntervals = @ + 1,
              !.phone.ringtoneInterval = "interval"]

stopRingtone(s) ==
    IF s.phone.ringtoneInterval = "interval"
    THEN [s EXCEPT !.browser.ringIntervals = @ - 1,
                   !.phone.ringtoneInterval = "null"]
    ELSE s

startCallTimer(s) ==
    [s EXCEPT !.phone.callStartTime = "Date",
              !.browser.callIntervals = @ + 1,
              !.phone.callTimer = "interval"]

stopCallTimer(s) ==
    IF s.phone.callTimer = "interval"
    THEN [s EXCEPT !.browser.callIntervals = @ - 1,
                   !.phone.callTimer = "null"]
    ELSE s

\* ---------------------------------------------------------------- render
showIncomingCall(s, callerNumber) ==
    playRingtone([s EXCEPT !.dom.answerBtnDisabled = FALSE,
                           !.dom.hangupBtnDisabled = FALSE])

showOutgoingCall(s, number) ==
    [s EXCEPT !.dom.answerBtnDisabled = TRUE,
              !.dom.hangupBtnDisabled = FALSE]

updateCallInfo(s) ==
    IF s.phone.isInCall
    THEN s
    ELSE IF s.phone.hasIncomingCall
         THEN showIncomingCall(s, s.phone.currentCaller)
         ELSE s

hideCallInfo(s) == stopRingtone(s)

updateSIPStatus(s) ==
    IF s.phone.isRegistered
    THEN [s EXCEPT !.dom.registerBtnDisabled = TRUE,
                   !.dom.unregisterBtnDisabled = FALSE,
                   !.dom.dialBtnDisabled = FALSE]
    ELSE [s EXCEPT !.dom.registerBtnDisabled = FALSE,
                   !.dom.unregisterBtnDisabled = TRUE,
                   !.dom.dialBtnDisabled = TRUE]

updateCallControls(s) ==
    IF s.phone.isInCall
    THEN [s EXCEPT !.dom.answerBtnDisabled = TRUE,
                   !.dom.hangupBtnDisabled = FALSE,
                   !.dom.dialBtnDisabled = TRUE,
                   !.dom.phoneNumberDisabled = TRUE]
    ELSE IF s.phone.hasIncomingCall
         THEN [s EXCEPT !.dom.answerBtnDisabled = FALSE,
                        !.dom.hangupBtnDisabled = FALSE,
                        !.dom.dialBtnDisabled = TRUE,
                        !.dom.phoneNumberDisabled = TRUE]
         ELSE [s EXCEPT !.dom.answerBtnDisabled = TRUE,
                        !.dom.hangupBtnDisabled = TRUE,
                        !.dom.dialBtnDisabled = ~s.phone.isRegistered,
                        !.dom.phoneNumberDisabled = ~s.phone.isRegistered]

\* -------------------------------------------------------------- settings
validateSIPSettings(form) == form = "filled"

\* saveSettings: one write of the form's snapshot to localStorage.sip_settings.
saveSettings(s) == log([s EXCEPT !.out.saves = @ + 1], "info")

\* ------------------------------------------------------------- transport
\* sendWebSocketMessage: sent only on an open socket, else logged and dropped.
\* The socket keeps the first frame it carried (browser.sessionFirst).
sendWebSocketMessage(s, type) ==
    IF s.phone.websocket # "null" /\ s.browser.readyState = "OPEN"
    THEN [s EXCEPT !.out.sent = Append(@, type),
                   !.browser.sessionFirst = IF @ = "none" THEN type ELSE @]
    ELSE log(s, "error")

requestStatus(s) == sendWebSocketMessage(s, "get_status")

\* -------------------------------------------------------- event handlers
\* Reading a property of an absent payload throws a TypeError at that line;
\* what ran before it stays done.
\* Mutant: the snapshot is merged into the local flags instead of replacing them.
handleStatusUpdate_merge(s, payload) ==
    IF payload = Undefined
    THEN Throw(s)
    ELSE updateCallInfo(
           updateCallControls(
             updateSIPStatus(
               [s EXCEPT !.phone.isRegistered = payload.sip_registered,
                         !.phone.isInCall = @ \/ payload.active_call,
                         !.phone.hasIncomingCall = @ \/ payload.has_incoming,
                         !.phone.currentCaller = payload.caller_number])))

handleStatusUpdate(s, payload) ==
    IF payload = Undefined
    THEN Throw(s)
    ELSE updateCallInfo(
           updateCallControls(
             updateSIPStatus(
               [s EXCEPT !.phone.isRegistered = payload.sip_registered,
                         !.phone.isInCall = payload.active_call,
                         !.phone.hasIncomingCall = payload.has_incoming,
                         !.phone.currentCaller = payload.caller_number])))

\* Mutant: the settings are saved only when the registration is news.
handleSIPRegistered_saveOnChange(s) ==
    LET a == updateSIPStatus(log([s EXCEPT !.phone.isRegistered = TRUE], "info"))
    IN IF s.phone.isRegistered THEN a ELSE saveSettings(a)

handleSIPRegistered(s) ==
    saveSettings(updateSIPStatus(log([s EXCEPT !.phone.isRegistered = TRUE], "info")))

\* Mutant: losing the registration drops the call.
handleSIPUnregistered_dropsCall(s) ==
    updateCallControls(
      updateSIPStatus(log([s EXCEPT !.phone.isRegistered = FALSE,
                                    !.phone.isInCall = FALSE,
                                    !.phone.hasIncomingCall = FALSE],
                          "warning")))

handleSIPUnregistered(s) ==
    updateSIPStatus(log([s EXCEPT !.phone.isRegistered = FALSE], "warning"))

handleIncomingCall(s, payload) ==
    LET a == [s EXCEPT !.phone.hasIncomingCall = TRUE]
    IN IF payload = Undefined
       THEN Throw(a)
       ELSE showIncomingCall([a EXCEPT !.phone.currentCaller = payload.caller_number],
                             payload.caller_number)

handleCallRinging(s) == log(s, "info")

handleCallAnswered(s) ==
    updateCallInfo(
      updateCallControls(
        log(startCallTimer(
              stopRingtone([s EXCEPT !.phone.isInCall = TRUE,
                                     !.phone.hasIncomingCall = FALSE])),
            "info")))

handleCallEnded(s) ==
    updateCallControls(
      log(hideCallInfo(
            stopRingtone(
              stopCallTimer([s EXCEPT !.phone.isInCall = FALSE,
                                      !.phone.hasIncomingCall = FALSE]))),
          "info"))

handleCallFailed(s, payload) ==
    IF payload = Undefined
    THEN Throw(s)
    ELSE updateCallControls(hideCallInfo(stopRingtone(log(s, "error"))))

\* JSON.parse, as far as the dispatcher depends on it: it throws on text that
\* is no JSON, and yields null for the text `null`.
JSONparse(frame) ==
    CASE frame.kind = "garbage" -> [threw |-> TRUE]
      [] frame.kind = "null"    -> [threw |-> FALSE, isNull |-> TRUE]
      [] OTHER -> [threw |-> FALSE, isNull |-> FALSE,
                   type |-> frame.type, payload |-> frame.payload]

dispatch(s, data) ==
    CASE data.type = "status_update"    -> handleStatusUpdate(s, data.payload)
      [] data.type = "sip_registered"   -> handleSIPRegistered(s)
      [] data.type = "sip_unregistered" -> handleSIPUnregistered(s)
      [] data.type = "incoming_call"    -> handleIncomingCall(s, data.payload)
      [] data.type = "call_ringing"     -> handleCallRinging(s)
      [] data.type = "call_answered"    -> handleCallAnswered(s)
      [] data.type = "call_ended"       -> handleCallEnded(s)
      [] data.type = "call_failed"      -> handleCallFailed(s, data.payload)
      [] data.type = "success" ->
            IF data.payload = Undefined THEN Throw(s) ELSE log(s, "info")
      [] data.type = "error" ->
            IF data.payload = Undefined THEN Throw(s) ELSE log(s, "error")
      [] OTHER -> log(s, "warning")

\* Mutant: a frame that cannot be handled is taken for a broken session and
\* the call is dropped.
handleWebSocketMessage_resetOnError(s, frame) ==
    LET data == JSONparse(frame)
        body == IF data.threw \/ data.isNull
                THEN Throw(s)
                ELSE dispatch(log(s, "debug"), data)
    IN IF body.out.threw
       THEN log(Catch([body EXCEPT !.phone.isInCall = FALSE,
                                   !.phone.hasIncomingCall = FALSE]),
                "error")
       ELSE body

handleWebSocketMessage(s, frame) ==
    LET data == JSONparse(frame)
        body == IF data.threw \/ data.isNull
                THEN Throw(s)
                ELSE dispatch(log(s, "debug"), data)
    IN IF body.out.threw THEN log(Catch(body), "error") ELSE body

\* --------------------------------------------------------------- commands
\* Mutant: the settings are saved when the registration is requested.
registerSIP_savesFirst(s, form) ==
    IF ~validateSIPSettings(form)
    THEN log(s, "warning")
    ELSE log(sendWebSocketMessage(saveSettings(s), "sip_register"), "info")

registerSIP(s, form) ==
    IF ~validateSIPSettings(form)
    THEN log(s, "warning")
    ELSE log(sendWebSocketMessage(s, "sip_register"), "info")

unregisterSIP(s) == log(sendWebSocketMessage(s, "sip_unregister"), "info")

makeCall(s, value) ==
    LET number == trim(value)
    IN IF number = ""
       THEN log(s, "warning")
       ELSE log(showOutgoingCall(sendWebSocketMessage(s, "sip_make_call"), number),
                "info")

\* Mutant: the answer is applied at once, like the hang-up.
answerCall_optimistic(s) ==
    log(updateCallControls(
          [sendWebSocketMessage(s, "sip_answer_call")
             EXCEPT !.phone.isInCall = TRUE,
                    !.phone.hasIncomingCall = FALSE]),
        "info")

answerCall(s) == log(sendWebSocketMessage(s, "sip_answer_call"), "info")

hangupCall(s) ==
    log(updateCallControls(
          stopCallTimer(
            stopRingtone(
              [sendWebSocketMessage(s, "sip_hangup_call")
                 EXCEPT !.phone.isInCall = FALSE,
                        !.phone.hasIncomingCall = FALSE]))),
        "info")

\* Mutant: the digit is sent without looking at the call.
sendDTMF_unguarded(s, digit) ==
    log(sendWebSocketMessage(s, "sip_send_dtmf"), "info")

sendDTMF(s, digit) ==
    IF s.phone.isInCall
    THEN log(sendWebSocketMessage(s, "sip_send_dtmf"), "info")
    ELSE log(s, "warning")

sendMessage(s) ==
    IF ~s.phone.isRegistered
    THEN log(s, "warning")
    ELSE log(sendWebSocketMessage(s, "sip_send_message"), "info")

\* changeLogLevel, from the point where the awaited fetch settles (before it
\* the method only reads the selected level): the response is ok, or not ok,
\* or the fetch failed.
changeLogLevel(s, outcome) ==
    CASE outcome = "ok" -> saveSettings(log(s, "info"))
      [] outcome = "not ok" -> log(s, "error")
      [] outcome = "failed" -> log(s, "error")

\* ------------------------------------------------------------ connection
\* connectWebSocket: a new socket replaces this.websocket and starts
\* CONNECTING; the constructor throwing is caught and logged.
connectWebSocket(s, ctorOk) ==
    IF ctorOk
    THEN [s EXCEPT !.phone.websocket = "ws",
                   !.browser.readyState = "CONNECTING",
                   !.browser.sessionFirst = "none"]
    ELSE log(s, "error")

\* Mutant: the new session is not asked for its status.
onopen_noStatus(s) == [log(s, "info") EXCEPT !.phone.isConnected = TRUE]

onopen(s) ==
    requestStatus([log(s, "info") EXCEPT !.phone.isConnected = TRUE])

onclose(s) ==
    [log(s, "warning") EXCEPT !.phone.isConnected = FALSE,
                              !.browser.reconnectTimers = @ + 1]

\* Mutant: the error handler schedules a retry of its own.
onerror_retry(s) == [log(s, "error") EXCEPT !.browser.reconnectTimers = @ + 1]

onerror(s) == log(s, "error")

destroy(s) ==
    LET a == IF s.phone.websocket # "null"
                /\ s.browser.readyState \in {"CONNECTING", "OPEN"}
             THEN [s EXCEPT !.browser.readyState = "CLOSING"]
             ELSE s
    IN log(stopRingtone(stopCallTimer(a)), "info")

CallState == CallStateOf(State)

\* The transition table of the design (section 4.3) for inbound events,
\* keyed by event type; a status_update is the snapshot's overwrite.  Pairs
\* the table leaves open keep what the handlers do, so that only a listed
\* row can differ.
TableEvent(ts, frame) ==
    IF frame.kind # "object" THEN ts
    ELSE CASE frame.type = "incoming_call" -> "INCOMING_RINGING"
           [] frame.type = "call_answered" -> "ACTIVE"
           [] frame.type = "call_ended"    -> "IDLE"
           [] frame.type = "call_failed"   -> "IDLE"
           [] frame.type = "status_update" ->
                 IF frame.payload = Undefined THEN ts
                 ELSE IF frame.payload.active_call THEN "ACTIVE"
                 ELSE IF frame.payload.has_incoming THEN "INCOMING_RINGING"
                 ELSE "IDLE"
           [] OTHER -> ts

Track(ts, frame) == IF ts = "untracked" THEN ts ELSE TableEvent(ts, frame)

\* ------------------------------------------------------------------ Init
\* The page as loaded: no call, not registered.
InitDom ==
    [answerBtnDisabled |-> TRUE, hangupBtnDisabled |-> TRUE,
     dialBtnDisabled |-> TRUE, registerBtnDisabled |-> FALSE,
     unregisterBtnDisabled |-> TRUE, phoneNumberDisabled |-> TRUE]

\* The state the constructor leaves: the fields' initial values, the saved
\* settings (if any) loaded into the form, the first connectWebSocket.
constructor(saved, ctorOk) ==
    LET s0 == [phone |-> [websocket |-> "null", isConnected |-> FALSE,
                          isRegistered |-> FALSE, isInCall |-> FALSE,
                          hasIncomingCall |-> FALSE, callStartTime |-> "null",
                          callTimer |-> "null", currentCaller |-> "",
                          currentCallState |-> "IDLE",
                          ringtoneInterval |-> "undefined"],
               dom |-> InitDom,
               browser |-> [readyState |-> "NONE", reconnectTimers |-> 0,
                            callIntervals |-> 0, ringIntervals |-> 0,
                            sessionFirst |-> "none"],
               out |-> [op |-> "constructor", arg |-> [kind |-> "none"],
                        sent |-> <<>>, logs |-> <<>>, saves |-> 0,
                        threw |-> FALSE, pre |-> "IDLE", again |-> FALSE]]
        s1 == IF saved THEN log(s0, "info") ELSE s0
    IN log(connectWebSocket(s1, ctorOk), "info")

Apply(s) ==
    /\ phone' = s.phone
    /\ dom' = s.dom
    /\ browser' = s.browser
    /\ out' = s.out

Init ==
    \E saved \in BOOLEAN, ctorOk \in BOOLEAN :
        LET s == constructor(saved, ctorOk)
        IN /\ phone = s.phone
           /\ dom = s.dom
           /\ browser = s.browser
           /\ out = s.out
           /\ tableState = "IDLE"

\* --------------------------------------------------------------- actions
WithinBounds(s) ==
    s.browser.callIntervals + s.browser.ringIntervals <= MaxIntervals

Cmd(name) == [kind |-> "cmd", name |-> name]

\* A local command: the method runs to its end (no await inside it).
Command(name, result) ==
    /\ WithinBounds(result)
    /\ Apply(result)
    /\ tableState' = "untracked"

\* Something that is neither an inbound event nor a command.
Local(result) ==
    /\ Apply(result)
    /\ UNCHANGED tableState

OnOpen ==
    /\ browser.readyState = "CONNECTING"
    /\ Local(onopen([Begin(State, "onopen", [kind |-> "none"])
                       EXCEPT !.browser.readyState = "OPEN"]))

\* Frames are delivered on an open socket, and on a closing one that was
\* open (isConnected is set by onopen and cleared only by onclose).
OnMessage ==
    /\ \/ browser.readyState = "OPEN"
       \/ browser.readyState = "CLOSING" /\ phone.isConnected
    /\ \E frame \in Frames :
          LET r == handleWebSocketMessage(Begin(State, "onmessage", frame), frame)
          IN /\ WithinBounds(r)
             /\ Apply(r)
             /\ tableState' = Track(tableState, frame)

\* A failed connection: the browser fires the error event and then the close
\* event, back to back.
OnError ==
    /\ browser.readyState \in {"CONNECTING", "OPEN", "CLOSING"}
    /\ Local(onclose(onerror([Begin(State, "onerror", [kind |-> "none"])
                                EXCEPT !.browser.readyState = "CLOSED"])))

OnClose ==
    /\ browser.readyState \in {"CONNECTING", "OPEN", "CLOSING"}
    /\ Local(onclose([Begin(State, "onclose", [kind |-> "none"])
                        EXCEPT !.browser.readyState = "CLOSED"]))

\* The 5 s timeout set by onclose fires.
ReconnectFire ==
    /\ browser.reconnectTimers > 0
    /\ \E ctorOk \in BOOLEAN :
          Local(connectWebSocket(
                  [Begin(State, "reconnect", [kind |-> "none"])
                     EXCEPT !.browser.reconnectTimers = @ - 1],
                  ctorOk))

\* The settings form and the number field hold what the user typed last;
\* nothing else reads them, so they are inputs of the commands that do.
RegisterSIP ==
    \E form \in Forms :
        Command("register",
                registerSIP(Begin(State, "command", Cmd("register")), form))

UnregisterSIP ==
    Command("unregister", unregisterSIP(Begin(State, "command", Cmd("unregister"))))

MakeCall ==
    \E value \in Numbers :
        Command("make_call",
                makeCall(Begin(State, "command", Cmd("make_call")), value))

AnswerCall ==
    Command("answer_call", answerCall(Begin(State, "command", Cmd("answer_call"))))

HangupCall ==
    Command("hangup_call", hangupCall(Begin(State, "command", Cmd("hangup_call"))))

SendDTMF ==
    \E d \in Digits :
        Command("dtmf", sendDTMF(Begin(State, "command", Cmd("dtmf")), d))

SendMessage ==
    Command("send_message", sendMessage(Begin(State, "command", Cmd("send_message"))))

\* The fetch started by a change of the log-level select settles.
ChangeLogLevel ==
    \E outcome \in {"ok", "not ok", "failed"} :
        Local(changeLogLevel(
                Begin(State, "changeLogLevel",
                      [kind |-> "fetch", ok |-> (outcome = "ok")]),
                outcome))

Destroy ==
    Local(destroy(Begin(State, "destroy", [kind |-> "none"])))

Next ==
    \/ OnOpen
    \/ OnMessage
    \/ OnError
    \/ OnClose
    \/ ReconnectFire
    \/ RegisterSIP
    \/ UnregisterSIP
    \/ MakeCall
    \/ AnswerCall
    \/ HangupCall
    \/ SendDTMF
    \/ SendMessage
    \/ ChangeLogLevel
    \/ Destroy

Spec == Init /\ [][Next]_vars

\* ================================================================ claims
IsFrame(o, type) ==
    o.op = "onmessage" /\ o.arg.kind = "object" /\ o.arg.type = type

IsCommand(o, name) == o.op = "command" /\ o.arg.name = name

HasPayload(o) == o.arg.payload # Undefined

SocketOpen == phone.websocket # "null" /\ browser.readyState = "OPEN"

\* C1: the call is ACTIVE (isInCall) only if a call-start timestamp is set,
\* and whenever the call is not ACTIVE the timestamp is cleared.
C1_ActiveIffStartTime ==
    /\ phone.isInCall => phone.callStartTime # "null"
    /\ ~phone.isInCall => phone.callStartTime = "null"

\* C2: after any sequence of inbound events (no local command so far) the
\* CallState the client is in equals the state the section 4.3 table gives
\* for the same events, applied left to right from IDLE.
C2_FollowsTable == tableState # "untracked" => CallState = tableState

\* C3: hangup_call issued while ACTIVE leaves CallState IDLE with no
\* call-duration interval running, and a call_ended that arrives next
\* changes nothing.
C3_HangupOptimism ==
    [][/\ (IsCommand(out', "hangup_call") /\ phone.isInCall)
            => /\ CallState' = "IDLE"
               /\ phone'.callTimer = "null"
               /\ browser'.callIntervals = 0
       /\ (IsCommand(out, "hangup_call") /\ out.pre = "ACTIVE"
             /\ IsFrame(out', "call_ended"))
            => /\ phone' = phone
               /\ dom' = dom
               /\ browser' = browser]_vars

\* C4: after a status_update that carries a snapshot, the registration flag
\* and the call/incoming flags are the snapshot's, whatever the state before
\* (a local DIALING included): with active_call and has_incoming both false
\* the CallState is IDLE.
C4_StatusUpdateOverwrites ==
    (IsFrame(out, "status_update") /\ HasPayload(out)) =>
        /\ phone.isRegistered = out.arg.payload.sip_registered
        /\ phone.isInCall = out.arg.payload.active_call
        /\ phone.hasIncomingCall = out.arg.payload.has_incoming
        /\ (~out.arg.payload.active_call /\ ~out.arg.payload.has_incoming)
              => CallState = "IDLE"

\* C4 witness: a snapshot with no call has just overwritten a local DIALING.
C4_Witness ==
    /\ IsFrame(out, "status_update") /\ HasPayload(out)
    /\ ~out.arg.payload.active_call /\ ~out.arg.payload.has_incoming
    /\ out.pre = "DIALING"
    /\ CallState = "IDLE"

\* C5: after a call_failed event, received in any CallState, the client is
\* IDLE: neither the in-call nor the incoming-call flag is set and the
\* ringtone handle holds no interval.
C5_CallFailedGoesIdle ==
    (IsFrame(out, "call_failed") /\ HasPayload(out)) =>
        /\ CallState = "IDLE"
        /\ ~phone.isInCall
        /\ ~phone.hasIncomingCall
        /\ phone.ringtoneInterval # "interval"

\* C6: isInCall and hasIncomingCall are never both set.
C6_OneCallState == ~(phone.isInCall /\ phone.hasIncomingCall)

\* C7: a command issued while the socket is not open sends nothing, logs
\* something, and leaves CallState, the registration flag, the call timer and
\* the ringtone as they were; nothing is kept to be sent on reconnect (the
\* first thing a new session sends is the status query alone).
C7_DroppedWhenNotConnected ==
    [][/\ (out'.op = "command" /\ ~SocketOpen)
            => /\ out'.sent = <<>>
               /\ out'.logs # <<>>
               /\ CallState' = CallState
               /\ phone'.isRegistered = phone.isRegistered
               /\ phone'.callTimer = phone.callTimer
               /\ phone'.ringtoneInterval = phone.ringtoneInterval
               /\ browser' = browser
       /\ out'.op = "onopen" => out'.sent = <<"get_status">>]_vars

\* C8: a DTMF command issued while the call is not ACTIVE sends nothing and
\* changes nothing; a DTMF frame is sent only from an ACTIVE call.
C8_DtmfNeedsActiveCall ==
    [][/\ (IsCommand(out', "dtmf") /\ ~phone.isInCall)
            => /\ out'.sent = <<>>
               /\ phone' = phone
               /\ dom' = dom
               /\ browser' = browser
       /\ (\E i \in DOMAIN out'.sent : out'.sent[i] = "sip_send_dtmf")
            => phone.isInCall]_vars

\* C8 witness: a digit pressed with an open socket and no call was rejected.
C8_Witness ==
    /\ IsCommand(out, "dtmf")
    /\ SocketOpen
    /\ out.pre = "IDLE"
    /\ out.sent = <<>>
    /\ out.logs = <<"warning">>

\* C9: a frame that cannot be parsed changes no field, no control and no timer,
\* sends nothing and logs exactly one line, an error; the socket stays as it
\* was, so the frames after it are handled as ever.
C9_MalformedFrameDiscarded ==
    [][(out'.op = "onmessage" /\ out'.arg.kind = "garbage")
            => /\ phone' = phone
               /\ dom' = dom
               /\ browser' = browser
               /\ out'.logs = <<"error">>
               /\ out'.sent = <<>>
               /\ out'.saves = 0]_vars

\* C9 witness: an unparseable frame was discarded in the middle of a call,
\* registered, on a socket that is still open.
C9_Witness ==
    /\ out.op = "onmessage" /\ out.arg.kind = "garbage"
    /\ out.logs = <<"error">>
    /\ phone.isInCall /\ phone.isRegistered
    /\ SocketOpen

\* C10 as stated: of two sip_registered events in a row the second changes
\* nothing and the settings are saved once over the two.
C10_SavedOnce ==
    [][(IsFrame(out', "sip_registered") /\ out'.again)
            => /\ phone.isRegistered
               /\ phone' = phone
               /\ out.saves + out'.saves = 1]_vars

\* C10 amended: of two sip_registered events in a row the second changes no
\* field, control or timer (REGISTERED after the first, and after the
\* second), and each of the two saves the settings once: two saves.
C10_IdempotentStateSavedEach ==
    [][(IsFrame(out', "sip_registered") /\ out'.again)
            => /\ phone.isRegistered
               /\ phone' = phone
               /\ dom' = dom
               /\ browser' = browser
               /\ out.saves = 1
               /\ out'.saves = 1]_vars

\* C10 witness: the second of two sip_registered events in a row has been
\* handled.
C10_Witness ==
    /\ IsFrame(out, "sip_registered")
    /\ out.again
    /\ phone.isRegistered
    /\ out.saves = 1

\* C11: a session closure schedules one reconnect attempt, and at no time is
\* more than one attempt pending.
C11_OneReconnectPending ==
    /\ browser.reconnectTimers <= 1
    /\ out.op \in {"onclose", "onerror"} => browser.reconnectTimers = 1

\* C11 witness: a session that had been open, and registered, has closed and
\* one attempt is pending.
C11_Witness ==
    /\ out.op \in {"onclose", "onerror"}
    /\ browser.sessionFirst = "get_status"
    /\ phone.isRegistered
    /\ browser.reconnectTimers = 1

\* C12: the first frame a session carries is get_status: an open socket has
\* sent it, and no socket has sent anything else first.
C12_StatusQueryFirst ==
    /\ browser.sessionFirst \in {"none", "get_status"}
    /\ browser.readyState = "OPEN" => browser.sessionFirst = "get_status"
    /\ out.op = "onopen" => out.sent = <<"get_status">>

\* C12 witness: a session has opened after an earlier one was lost (the
\* registration was learnt on the earlier one) and has sent its status query.
C12_Witness ==
    /\ out.op = "onopen"
    /\ phone.isRegistered
    /\ out.sent = <<"get_status">>
    /\ browser.sessionFirst = "get_status"

\* C13: destroy leaves no reconnect attempt pending and no ringtone or
\* call-duration interval running, the closure it causes schedules no attempt,
\* and no connection is opened after it.
C13_DestroyCancelsAll ==
    [][/\ out'.op = "destroy"
            => /\ browser'.reconnectTimers = 0
               /\ browser'.callIntervals = 0
               /\ browser'.ringIntervals = 0
       /\ (out.op = "destroy" /\ out'.op \in {"onclose", "onerror"})
            => browser'.reconnectTimers = 0
       /\ out.op = "destroy" => out'.op # "reconnect"]_vars

\* C14: while the connection is not open a new attempt is always on its way:
\* a socket is connecting, or is still to report its closure, or a reconnect
\* attempt is pending.  (A state without any of them never connects again.)
C14_RetryOnItsWay ==
    \/ browser.readyState \in {"OPEN", "CONNECTING", "CLOSING"}
    \/ browser.reconnectTimers > 0

\* C15, in the two cases it names: once a status_update whose has_incoming is
\* false, or a call_answered, has been handled, no ringtone interval runs.
C15_RingtoneOnlyWhileRinging ==
    /\ (/\ IsFrame(out, "status_update")
        /\ HasPayload(out)
        /\ ~out.arg.payload.has_incoming) => browser.ringIntervals = 0
    /\ IsFrame(out, "call_answered") => browser.ringIntervals = 0

\* C16: a call-duration interval runs if and only if the call is ACTIVE, and
\* at most one runs.
C16_TickIffActive ==
    /\ browser.callIntervals > 0 <=> phone.isInCall
    /\ browser.callIntervals <= 1

\* C17 as stated: only a sip_registered event saves the settings.
C17_SavedOnlyOnRegistered ==
    out.saves > 0 => IsFrame(out, "sip_registered")

\* C17 amended: the settings are saved, once, by a sip_registered event and by
\* a log-level change the server accepted, and by nothing else.
C17_SavedOnRegisteredOrLogLevel ==
    /\ out.saves > 0
         => \/ IsFrame(out, "sip_registered")
            \/ out.op = "changeLogLevel" /\ out.arg.ok
    /\ IsFrame(out, "sip_registered") => out.saves = 1
    /\ out.op = "changeLogLevel" => out.saves = (IF out.arg.ok THEN 1 ELSE 0)
    /\ out.saves <= 1

\* C17 witness: an accepted log-level change has saved the settings.
C17_Witness ==
    /\ out.op = "changeLogLevel"
    /\ out.arg.ok
    /\ out.saves = 1
    /\ ~phone.isRegistered

\* C18: answer_call changes no field, control or timer (from INCOMING_RINGING
\* the state stays INCOMING_RINGING), and the call becomes ACTIVE only through
\* a call_answered event or a status_update with active_call set.
C18_AnswerNotOptimistic ==
    [][/\ IsCommand(out', "answer_call")
            => /\ phone' = phone
               /\ dom' = dom
               /\ browser' = browser
       /\ (~phone.isInCall /\ phone'.isInCall)
            => \/ IsFrame(out', "call_answered")
               \/ /\ IsFrame(out', "status_update")
                  /\ HasPayload(out')
                  /\ out'.arg.payload.active_call]_vars

\* C18 witness: an incoming call was answered, the answer was sent, and the
\* call is still ringing.
C18_Witness ==
    /\ IsCommand(out, "answer_call")
    /\ out.pre = "INCOMING_RINGING"
    /\ out.sent = <<"sip_answer_call">>
    /\ CallState = "INCOMING_RINGING"
    /\ browser.ringIntervals > 0

\* C19: a frame whose handling raises an error (unparseable, null, or of a
\* type that reads its payload and has none) leaves the flags and the caller
\* number as they were.
C19_BadFrameChangesNothing ==
    [][(/\ out'.op = "onmessage"
        /\ \/ out'.arg.kind # "object"
           \/ out'.arg.type \in ReadsPayload /\ ~HasPayload(out'))
            => /\ phone' = phone
               /\ CallState' = CallState]_vars

\* C20: sip_registered sets and sip_unregistered clears the registration flag,
\* and neither changes another field, a timer or the CallState.
C20_RegistrationOnly ==
    [][/\ IsFrame(out', "sip_registered")
            => /\ phone' = [phone EXCEPT !.isRegistered = TRUE]
               /\ browser' = browser
               /\ CallState' = CallState
       /\ IsFrame(out', "sip_unregistered")
            => /\ phone' = [phone EXCEPT !.isRegistered = FALSE]
               /\ browser' = browser
               /\ CallState' = CallState]_vars

\* C20 witness: the registration was lost in the middle of a call and the
\* call goes on, its timer running.
C20_Witness ==
    /\ IsFrame(out, "sip_unregistered")
    /\ out.pre = "ACTIVE"
    /\ ~phone.isRegistered
    /\ phone.isInCall
    /\ phone.callTimer = "interval"

\* C21: once a handler that calls stopRingtone has run (call_answered,
\* call_ended, call_failed with its payload, hangup_call, destroy), no
\* ringtone interval started by an earlier playRingtone is still scheduled.
C21_StopRingtoneStopsAll ==
    (\/ IsFrame(out, "call_answered")
     \/ IsFrame(out, "call_ended")
     \/ IsFrame(out, "call_failed") /\ HasPayload(out)
     \/ IsCommand(out, "hangup_call")
     \/ out.op = "destroy") => browser.ringIntervals = 0

\* C22: the dial control is disabled whenever a call is active or an incoming
\* call is pending.
C22_NoDialDuringCall ==
    (phone.isInCall \/ phone.hasIncomingCall) => dom.dialBtnDisabled

====
